---- MODULE Spec2Model ----
(***************************************************************************)
(* mc-packer: the version model (version.py), the dependency graph and the *)
(* analysis pass (mod_info.py) and the elimination search (eliminate.py).  *)
(*                                                                         *)
(* Strings are sequences of one-character strings, so that the parsing     *)
(* code can be followed character by character.  Python objects (Node,     *)
(* DependencyGraph) are heap cells named by their creation number; 0 is    *)
(* "no object" and stands for a key that a dict does not hold.             *)
(***************************************************************************)
EXTENDS Integers, Sequences, FiniteSets, TLC

(***************************************************************************)
(* Bounds of the model.                                                    *)
(***************************************************************************)
\* the longest dependency list a manifest of the enumerated packs declares
MaxDeps == 2
\* the number of direct calls the unit driver makes on graphs and nodes
MaxCalls == 2
\* the node-list length at which the interpreter runs out of memory
MaxNodes == 5
\* the most parts of a compared version, and components of a part
MaxParts == 2
MaxComps == 2
\* the largest component value of a compared version
MaxVal == 1
\* the longest candidate list handed to the elimination search
MaxList == 6
\* the depth of nested enable() calls at which the interpreter raises
\* RecursionError
MaxDepth == 6
\* the number of direct calls of enable, disable and disable_all
MaxToggles == 2

(***************************************************************************)
(* Small helpers.                                                          *)
(***************************************************************************)
Max(a, b) == IF a > b THEN a ELSE b

Last(s) == s[Len(s)]

Front(s) == SubSeq(s, 1, Len(s) - 1)

RECURSIVE SeqOfSet(_)
SeqOfSet(S) ==
    IF S = {} THEN << >>
    ELSE LET x == CHOOSE y \in S : TRUE IN << x >> \o SeqOfSet(S \ {x})

(***************************************************************************)
(* version.py: VersionPart.  components is a sequence of integers; each    *)
(* of the five comparisons is its own loop over the zero-padded            *)
(* components.                                                             *)
(***************************************************************************)
Component(p, i) == IF Len(p) >= i THEN p[i] ELSE 0

RECURSIVE PartLoop(_, _, _, _, _, _)
PartLoop(p, q, i, onLess, onGreater, atEnd) ==
    IF i > Max(Len(p), Len(q)) THEN atEnd
    ELSE IF Component(p, i) < Component(q, i) THEN onLess
    ELSE IF Component(p, i) > Component(q, i) THEN onGreater
    ELSE PartLoop(p, q, i + 1, onLess, onGreater, atEnd)

VersionPart_eq(p, q) == PartLoop(p, q, 1, FALSE, FALSE, TRUE)

VersionPart_lt(p, q) == PartLoop(p, q, 1, TRUE, FALSE, FALSE)

VersionPart_le(p, q) == PartLoop(p, q, 1, TRUE, FALSE, TRUE)

VersionPart_gt(p, q) == PartLoop(p, q, 1, FALSE, TRUE, FALSE)

VersionPart_ge(p, q) == PartLoop(p, q, 1, FALSE, TRUE, TRUE)

(***************************************************************************)
(* version.py: Version = [text, parts].  A missing part is VersionPart([0])*)
(* and every comparison decides on the first pair of parts with a < b or   *)
(* a > b.                                                                  *)
(***************************************************************************)
PartAt(v, i) == IF Len(v.parts) >= i THEN v.parts[i] ELSE << 0 >>

RECURSIVE VersionLoop(_, _, _, _, _, _)
VersionLoop(v, w, i, onLess, onGreater, atEnd) ==
    IF i > Max(Len(v.parts), Len(w.parts)) THEN atEnd
    ELSE IF VersionPart_lt(PartAt(v, i), PartAt(w, i)) THEN onLess
    ELSE IF VersionPart_gt(PartAt(v, i), PartAt(w, i)) THEN onGreater
    ELSE VersionLoop(v, w, i + 1, onLess, onGreater, atEnd)

\* equality of the fields instead of the comparison loop
Version_eq_fields(v, w) == v = w

Version_eq(v, w) == VersionLoop(v, w, 1, FALSE, FALSE, TRUE)

Version_lt(v, w) == VersionLoop(v, w, 1, TRUE, FALSE, FALSE)

Version_le(v, w) == VersionLoop(v, w, 1, TRUE, FALSE, TRUE)

Version_gt(v, w) == VersionLoop(v, w, 1, FALSE, TRUE, FALSE)

Version_ge(v, w) == VersionLoop(v, w, 1, FALSE, TRUE, TRUE)

Wildcard == [text |-> << "*" >>, parts |-> << >>]

(***************************************************************************)
(* version.py: VersionRange = [lower, upper], each a VersionRangePart      *)
(* [bound, inclusive].                                                     *)
(***************************************************************************)
\* contains with the upper bound always exclusive
VersionRange_contains_strictUpper(r, version) ==
    LET lowerOk ==
            IF r.lower.bound.text = << "*" >> THEN TRUE
            ELSE IF r.lower.inclusive THEN Version_le(r.lower.bound, version)
            ELSE Version_lt(r.lower.bound, version)
        upperOk ==
            IF r.upper.bound.text = << "*" >> THEN TRUE
            ELSE Version_gt(r.upper.bound, version)
    IN  lowerOk /\ upperOk

VersionRange_contains(r, version) ==
    LET lowerOk ==
            IF r.lower.bound.text = << "*" >> THEN TRUE
            ELSE IF r.lower.inclusive THEN Version_le(r.lower.bound, version)
            ELSE Version_lt(r.lower.bound, version)
        upperOk ==
            IF r.upper.bound.text = << "*" >> THEN TRUE
            ELSE IF r.upper.inclusive THEN Version_ge(r.upper.bound, version)
            ELSE Version_gt(r.upper.bound, version)
    IN  lowerOk /\ upperOk

(***************************************************************************)
(* Characters.  Ascii lists the printable characters from code 32 (space)  *)
(* to code 126, so that Ord gives the code the regular expressions' ranges *)
(* and ord() work on.  The double quote, the backslash and the backquote   *)
(* are written dquote, bslash and bquote.                                  *)
(***************************************************************************)
Ascii ==
    << " ", "!", "dquote", "#", "$", "%", "&", "'", "(", ")", "*", "+", ",", "-", ".", "/",
       "0", "1", "2", "3", "4", "5", "6", "7", "8", "9", ":", ";", "<", "=", ">", "?",
       "@", "A", "B", "C", "D", "E", "F", "G", "H", "I", "J", "K", "L", "M", "N", "O",
       "P", "Q", "R", "S", "T", "U", "V", "W", "X", "Y", "Z", "[", "bslash", "]", "^", "_",
       "bquote", "a", "b", "c", "d", "e", "f", "g", "h", "i", "j", "k", "l", "m", "n", "o",
       "p", "q", "r", "s", "t", "u", "v", "w", "x", "y", "z", "{", "|", "}", "~" >>

Chr(n) == Ascii[n - 31]

Ord(c) == CHOOSE n \in 32..126 : Chr(n) = c

\* the characters of a range lo-hi of a character class
Chars(lo, hi) == { Chr(n) : n \in lo..hi }

IsDigit(c) == Ord(c) \in 48..57

IsLower(c) == Ord(c) \in 97..122

IsUpper(c) == Ord(c) \in 65..90

\* str.lower()
Lower(s) == [i \in 1..Len(s) |-> IF IsUpper(s[i]) THEN Chr(Ord(s[i]) + 32) ELSE s[i]]

StartsAt(s, i, pat) ==
    /\ i + Len(pat) - 1 <= Len(s)
    /\ SubSeq(s, i, i + Len(pat) - 1) = pat

\* str.replace(old, new): every non-overlapping occurrence, left to right
RECURSIVE ReplaceFrom(_, _, _, _)
ReplaceFrom(s, i, old, new) ==
    IF i > Len(s) THEN << >>
    ELSE IF StartsAt(s, i, old) THEN new \o ReplaceFrom(s, i + Len(old), old, new)
    ELSE << s[i] >> \o ReplaceFrom(s, i + 1, old, new)

Replace(s, old, new) == ReplaceFrom(s, 1, old, new)

\* str.split(sep) for a one-character separator: a sequence of strings
RECURSIVE SplitFrom(_, _, _, _)
SplitFrom(s, i, sep, cur) ==
    IF i > Len(s) THEN << cur >>
    ELSE IF s[i] = sep THEN << cur >> \o SplitFrom(s, i + 1, sep, << >>)
    ELSE SplitFrom(s, i + 1, sep, Append(cur, s[i]))

Split(s, sep) == SplitFrom(s, 1, sep, << >>)

\* str.strip(chars): drop the leading and the trailing characters of the set
RECURSIVE LStrip(_, _)
LStrip(s, chars) ==
    IF s # << >> /\ Head(s) \in chars THEN LStrip(Tail(s), chars) ELSE s

RECURSIVE RStrip(_, _)
RStrip(s, chars) ==
    IF s # << >> /\ Last(s) \in chars THEN RStrip(Front(s), chars) ELSE s

Strip(s, chars) == RStrip(LStrip(s, chars), chars)

\* int(x) of a string of decimal digits
RECURSIVE ParseInt(_)
ParseInt(x) ==
    IF x = << >> THEN 0 ELSE 10 * ParseInt(Front(x)) + (Ord(Last(x)) - 48)

\* str(n) of a non-negative integer
RECURSIVE IntToStr(_)
IntToStr(n) ==
    IF n < 10 THEN << Chr(48 + n) >> ELSE IntToStr(n \div 10) \o << Chr(48 + (n % 10)) >>

(***************************************************************************)
(* version.py: Version.fromString.                                         *)
(***************************************************************************)
VERSION_DELIMITERS == << "+", "_", ":" >>

\* the value standing for a raised BadVersionString
BadVersionString == [text |-> << "BadVersionString" >>, parts |-> << >>]

\* text.replace('alpha', '0') ... text.replace('release', '3'), in the code's order
Qualifiers ==
    << << << "a", "l", "p", "h", "a" >>, << "0" >> >>,
       << << "b", "e", "t", "a" >>, << "1" >> >>,
       << << "p", "r", "e", "-", "r", "e", "l", "e", "a", "s", "e" >>, << "2" >> >>,
       << << "p", "r", "e" >>, << "2" >> >>,
       << << "r", "c" >>, << "2" >> >>,
       << << "s", "n", "a", "p", "s", "h", "o", "t" >>, << "2" >> >>,
       << << "r", "e", "l", "e", "a", "s", "e" >>, << "3" >> >> >>

RECURSIVE ReplaceQualifiers(_, _)
ReplaceQualifiers(text, k) ==
    IF k > Len(Qualifiers) THEN text
    ELSE ReplaceQualifiers(Replace(text, Qualifiers[k][1], Qualifiers[k][2]), k + 1)

RECURSIVE ReplaceDelimiters(_, _)
ReplaceDelimiters(text, k) ==
    IF k > Len(VERSION_DELIMITERS) THEN text
    ELSE ReplaceDelimiters(Replace(text, << VERSION_DELIMITERS[k] >>, << "-" >>), k + 1)

\* re.fullmatch(r'(?!\.)[0-9]*[a-z]+[0-9a-z]*$', candidate)
IsTextOnly(candidate) ==
    \E k \in 0..Len(candidate) - 1 :
        /\ \A i \in 1..k : IsDigit(candidate[i])
        /\ IsLower(candidate[k + 1])
        /\ \A i \in k + 2..Len(candidate) : IsDigit(candidate[i]) \/ IsLower(candidate[i])

\* re.fullmatch(r'^[a-z0-9.]+$', candidate)
IsVersionText(candidate) ==
    /\ candidate # << >>
    /\ \A i \in 1..Len(candidate) :
          IsDigit(candidate[i]) \/ IsLower(candidate[i]) \/ candidate[i] = "."

\* the classes [.] and [a-z] of the word pattern
DotClass == { "." }

LowerClass == Chars(97, 122)

\* the class [0-9a-zA-Z+-_:., ] of the bracket pattern; +-_ is the range of
\* the codes from '+' (43) to '_' (95)
BracketClass ==
    Chars(48, 57) \cup Chars(97, 122) \cup Chars(65, 90) \cup Chars(43, 95)
        \cup { ":", ".", ",", " " }

\* the end of the longest run of characters of the class, from i on
RECURSIVE RunEnd(_, _, _)
RunEnd(s, i, class) ==
    IF i <= Len(s) /\ s[i] \in class THEN RunEnd(s, i + 1, class) ELSE i

\* re.findall(r'[.]*([a-z]+[.]+)', candidate): the letter runs followed by dots
RECURSIVE FindWords(_, _)
FindWords(s, i) ==
    IF i > Len(s) THEN << >>
    ELSE LET a == RunEnd(s, i, DotClass)
             b == RunEnd(s, a, LowerClass)
             c == RunEnd(s, b, DotClass)
         IN  IF b > a /\ c > b
             THEN << SubSeq(s, a, c - 1) >> \o FindWords(s, c)
             ELSE FindWords(s, i + 1)

\* re.findall(r'[0-9]([a-z])', candidate): the letters that follow a digit
RECURSIVE FindDigitLetters(_, _)
FindDigitLetters(s, i) ==
    IF i >= Len(s) THEN << >>
    ELSE IF IsDigit(s[i]) /\ IsLower(s[i + 1])
         THEN << s[i + 1] >> \o FindDigitLetters(s, i + 2)
         ELSE FindDigitLetters(s, i + 1)

\* re.findall(r'([a-z])', candidate)
FindLetters(s) == SelectSeq(s, IsLower)

RECURSIVE RemoveWords(_, _, _)
RemoveWords(candidate, words, k) ==
    IF k > Len(words) THEN candidate
    ELSE RemoveWords(Replace(candidate, words[k], << >>), words, k + 1)

\* idx = ord(letter) - ord('a') + 1
LetterIndex(letter) == IntToStr(Ord(letter) - Ord("a") + 1)

RECURSIVE FoldLetters(_, _, _, _)
FoldLetters(candidate, letters, k, prefix) ==
    IF k > Len(letters) THEN candidate
    ELSE FoldLetters(Replace(candidate, << letters[k] >>, prefix \o LetterIndex(letters[k])),
                     letters, k + 1, prefix)

\* candidate.replace(word, '') for the letter runs followed by dots
DropWords(candidate) == RemoveWords(candidate, FindWords(candidate, 1), 1)

\* a letter that follows a digit becomes '.' and its number
FoldDigitLetters(candidate) ==
    FoldLetters(candidate, FindDigitLetters(candidate, 1), 1, << "." >>)

\* every letter left becomes its number
FoldAllLetters(candidate) == FoldLetters(candidate, FindLetters(candidate), 1, << >>)

CleanCandidate(candidate) == FoldAllLetters(FoldDigitLetters(DropWords(candidate)))

RECURSIVE ValidParts(_, _)
ValidParts(candidates, k) ==
    IF k > Len(candidates) THEN << >>
    ELSE LET candidate == candidates[k] IN
         IF candidate = << >> THEN ValidParts(candidates, k + 1)
         ELSE IF IsTextOnly(candidate) THEN ValidParts(candidates, k + 1)
         ELSE IF IsVersionText(candidate)
              THEN << CleanCandidate(candidate) >> \o ValidParts(candidates, k + 1)
              ELSE ValidParts(candidates, k + 1)

NonEmpty(x) == x # << >>

\* VersionPart([int(x) for x in components.split('.') if x != ''])
ToVersionPart(components) ==
    LET xs == SelectSeq(Split(components, "."), NonEmpty)
    IN  [i \in 1..Len(xs) |-> ParseInt(xs[i])]

\* the end of fromString: cls(text, parts), or BadVersionString raised
VersionOfParts(text, valid_parts) ==
    IF Len(valid_parts) > 0
    THEN [text |-> text,
          parts |-> [i \in 1..Len(valid_parts) |-> ToVersionPart(valid_parts[i])]]
    ELSE BadVersionString

\* fromString from the split at '-' on
VersionOfText(text) == VersionOfParts(text, ValidParts(Split(text, "-"), 1))

Version_fromString(text_raw) ==
    IF text_raw \in { << >>, << "*" >> } THEN Wildcard
    ELSE VersionOfText(ReplaceDelimiters(ReplaceQualifiers(Lower(text_raw), 1), 1))

(***************************************************************************)
(* version.py: VersionRange.fromString.  The result is [raised, ranges]:   *)
(* raised names the exception the call ends with, "none" when it returns.  *)
(***************************************************************************)
\* re.fullmatch(r'^[a-zA-Z0-9-+:_.]+$', range_raw)
IsBareToken(range_raw) ==
    /\ range_raw # << >>
    /\ \A i \in 1..Len(range_raw) :
          \/ IsDigit(range_raw[i]) \/ IsLower(range_raw[i]) \/ IsUpper(range_raw[i])
          \/ range_raw[i] \in { "-", "+", ":", "_", "." }

IsOpen(c) == c \in { "[", "(" }

IsClose(c) == c \in { "]", ")" }

\* re.findall(r'([\[\(][0-9a-zA-Z+-_:., ]*[\]\)])', range_raw): leftmost matches,
\* the class taken greedily and given back until a closing bracket follows
RECURSIVE FindBrackets(_, _)
FindBrackets(s, i) ==
    IF i > Len(s) THEN << >>
    ELSE IF ~IsOpen(s[i]) THEN FindBrackets(s, i + 1)
    ELSE LET k == RunEnd(s, i + 1, BracketClass)
             ends == { e \in i + 1..k : e <= Len(s) /\ IsClose(s[e]) }
         IN  IF ends = {} THEN FindBrackets(s, i + 1)
             ELSE LET e == CHOOSE x \in ends : \A y \in ends : y <= x
                  IN  << SubSeq(s, i, e) >> \o FindBrackets(s, e + 1)

Brackets == { "[", "]", "(", ")" }

Whitespace == { " " }

\* if lower in ['(', '[']: lower = lower + '*'
StarLower(lower) ==
    IF lower \in { << "(" >>, << "[" >> } THEN lower \o << "*" >> ELSE lower

\* if upper in [']', ')']: upper = '*' + upper
StarUpper(upper) ==
    IF upper \in { << "]" >>, << ")" >> } THEN << "*" >> \o upper ELSE upper

\* VersionRange(lower_part, upper_part) of the two parsed bounds, or what the
\* two lines that build the parts raise
RangeOfBounds(lower, upper, lowerV, upperV) ==
    IF lowerV = BadVersionString THEN [raised |-> "BadVersionString"]
    ELSE IF upperV = BadVersionString THEN [raised |-> "BadVersionString"]
    ELSE IF upper = << >> THEN [raised |-> "IndexError"]
    ELSE [raised |-> "none",
          range |-> [lower |-> [bound |-> lowerV, inclusive |-> lower[1] = "["],
                     upper |-> [bound |-> upperV, inclusive |-> Last(upper) = "]"]]]

RangeOfTexts(lower, upper) ==
    RangeOfBounds(lower, upper, Version_fromString(Strip(lower, Brackets)),
                  Version_fromString(Strip(upper, Brackets)))

RangeOfParts(parts) ==
    RangeOfTexts(StarLower(Strip(parts[1], Whitespace)),
                 StarUpper(Strip(parts[IF Len(parts) > 1 THEN 2 ELSE 1], Whitespace)))

\* one iteration of the loop over the bracket expressions
RangeOfBracket(range) == RangeOfParts(Split(range, ","))

\* the loop over the outcomes of its iterations: the first exception ends it
RangesOfOutcomes(rs) ==
    IF \E k \in 1..Len(rs) : rs[k].raised # "none"
    THEN [raised |-> rs[CHOOSE k \in 1..Len(rs) :
                            /\ rs[k].raised # "none"
                            /\ \A j \in 1..k - 1 : rs[j].raised = "none"].raised,
          ranges |-> << >>]
    ELSE [raised |-> "none", ranges |-> [k \in 1..Len(rs) |-> rs[k].range]]

RangesOfBrackets(found) ==
    IF found = << >> THEN [raised |-> "BadVersionString", ranges |-> << >>]
    ELSE RangesOfOutcomes([k \in 1..Len(found) |-> RangeOfBracket(found[k])])

\* vrp = VersionRangePart(Version.fromString(range_raw), True); [cls(vrp, vrp)]
RangeOfToken(v) ==
    IF v = BadVersionString THEN [raised |-> "BadVersionString", ranges |-> << >>]
    ELSE [raised |-> "none",
          ranges |-> << [lower |-> [bound |-> v, inclusive |-> TRUE],
                         upper |-> [bound |-> v, inclusive |-> TRUE]] >>]

WildcardRange ==
    [lower |-> [bound |-> Wildcard, inclusive |-> TRUE],
     upper |-> [bound |-> Wildcard, inclusive |-> TRUE]]

VersionRange_fromString(range_raw) ==
    IF range_raw \in { << "*" >>, << "," >> }
    THEN [raised |-> "none", ranges |-> << WildcardRange >>]
    ELSE IF IsBareToken(range_raw) THEN RangeOfToken(Version_fromString(range_raw))
    ELSE RangesOfBrackets(FindBrackets(range_raw, 1))

(***************************************************************************)
(* mod_info.py: ModDependency = [modid, required, version_reqs].           *)
(***************************************************************************)
ModDependency_validateMod(dep, modid, version) ==
    IF modid # dep.modid THEN FALSE
    ELSE \E k \in 1..Len(dep.version_reqs) :
            VersionRange_contains(dep.version_reqs[k], version)

(***************************************************************************)
(* The state.                                                              *)
(*   driver        what runs: main.py ("main"), direct calls on graphs and *)
(*                 nodes ("unit"), or one of the pure-function harnesses   *)
(*   pc            where the driver stands                                 *)
(*   err           the exception the run ended with, "none" otherwise      *)
(*   mods          ModPack.mods: modid -> Mod                              *)
(*   errors        ModPack.errors                                          *)
(*   validation    what validateVersions returned ("unset" before)         *)
(*   ALL_GRAPHS    DependencyGraph._ALL_GRAPHS: modid -> graph, 0 = no key *)
(*   ALL_NODES     DependencyGraph._ALL_NODES: modid -> node, 0 = no key   *)
(*   node_mod_set  Node.mod_set of every node created                      *)
(*   node_graph    Node.graph of every node created                        *)
(*   graph_nodes   DependencyGraph.nodes of every graph created            *)
(*   graphs        the local list graphs of identifyBrokenMods             *)
(*   graph_list    the local list graph_list of identifyBrokenMods         *)
(*   idx           the iteration the running loop over mods.values() is in *)
(*   stack         the frames of the running process_graph calls           *)
(*   call          the last direct call of the unit driver and its outcome *)
(*   calls         the number of direct calls made                         *)
(*   ver, prs, elim  the inputs and results of the pure-function harnesses *)
(*   directory     ModPack.directory: the path of the instance             *)
(*   filename      Mod.filename of every registered package                *)
(*   files         the paths of the files on disk                          *)
(*   toggles       the direct calls of enable, disable and disable_all     *)
(*                 made so far, with their outcomes                        *)
(*   jars          the jars of the folder mods, in the order load reads    *)
(*                 them; idx counts the ones read during the load          *)
(*   listing       what why_depends printed                                *)
(***************************************************************************)
VARIABLES driver, pc, err, mods, errors, validation, ALL_GRAPHS, ALL_NODES,
          node_mod_set, node_graph, graph_nodes, graphs, graph_list, idx, stack,
          call, calls, ver, prs, elim, directory, filename, files, toggles, jars,
          listing

packVars == << mods, errors, validation >>

heapVars == << ALL_GRAPHS, ALL_NODES, node_mod_set, node_graph, graph_nodes >>

passVars == << graphs, graph_list, idx, stack >>

unitVars == << call, calls >>

pureVars == << ver, prs, elim >>

fileVars == << directory, filename, files, toggles >>

ioVars == << fileVars, jars, listing >>

vars == << driver, pc, err, packVars, heapVars, passVars, unitVars, pureVars, ioVars >>

(***************************************************************************)
(* The packs.  a, b and c are ordinary packages, forge is a platform       *)
(* package that is installed, m is a package no jar provides.              *)
(***************************************************************************)
PLATFORM == { "minecraft", "forge" }

NonPlatform == { "a", "b", "c" }

Installed == NonPlatform \cup { "forge" }

ModIds == Installed \cup { "m" }

\* the order of ModPack.mods, the order the jars were loaded in
ModOrder == << "a", "b", "c", "forge" >>

S_1_0 == << "1", ".", "0" >>

S_2_0 == << "2", ".", "0" >>

S_1_0_beta == << "1", ".", "0", "-", "b", "e", "t", "a" >>

\* the versionRange "[1.0,2.0)" of the enumerated manifests
S_range == << "[", "1", ".", "0", ",", "2", ".", "0", ")" >>

ModVersion(x) ==
    Version_fromString(CASE x = "a" -> S_1_0
                         [] x = "b" -> S_2_0
                         [] x = "c" -> S_1_0_beta
                         [] OTHER -> S_1_0)

\* ModDependency(modid, required, version_range)
\* the fields of a ModDependency
Dependency(modid, required, version_reqs) ==
    [modid |-> modid, required |-> required, version_reqs |-> version_reqs]

ModDependency(modid, required, version_range) ==
    Dependency(modid, required, VersionRange_fromString(version_range).ranges)

\* the dependencies a manifest of x may declare: << modid, mandatory >>
DepTargets(x) ==
    { << t, TRUE >> : t \in (NonPlatform \ { x }) \cup { "forge" } }
        \cup { << "m", r >> : r \in BOOLEAN }

\* their ModDependency objects; reqs is the parsed versionRange
DepPool(x, reqs) == { Dependency(d[1], d[2], reqs) : d \in DepTargets(x) }

DepLists(x, reqs) ==
    { SeqOfSet(D) : D \in { E \in SUBSET DepPool(x, reqs) :
                              /\ Cardinality(E) <= MaxDeps
                              /\ \A d, e \in E : d.modid = e.modid => d = e } }

\* Mod.load: the Mod of a jar whose manifest declares the dependencies deps
Mod(x, deps) ==
    [version |-> ModVersion(x), dependencies |-> deps, dependents |-> << >>,
     errors |-> << >>]

NoCall ==
    [op |-> "none", self |-> 0, other |-> 0, outcome |-> "returned",
     before |-> [graph_nodes |-> << >>, node_mod_set |-> << >>,
                 ALL_NODES |-> [x \in ModIds |-> 0], ALL_GRAPHS |-> [x \in ModIds |-> 0]]]

NoVer == [pc |-> "off"]

NoPrs == [pc |-> "off"]

NoElim == [pc |-> "off"]

(***************************************************************************)
(* filesystem.py: paths.  A path is a string; the instance directory is    *)
(* the path main.py was given, absolute or relative to the working         *)
(* directory, and every jar of the pack lies in its folder mods.           *)
(***************************************************************************)
AbsoluteDir == << "/", "i" >>

RelativeDir == << "i" >>

\* os.path.join(a, b)
PathJoin(a, b) ==
    IF b # << >> /\ b[1] = "/" THEN b
    ELSE IF a = << >> \/ Last(a) = "/" THEN a \o b
    ELSE a \o << "/" >> \o b

S_jar == << ".", "j", "a", "r" >>

S_disabled == << ".", "d", "i", "s", "a", "b", "l", "e", "d" >>

S_no_file == << "[", "n", "o", " ", "f", "i", "l", "e", "]" >>

\* DirectoryZip(mod_dir, file.name, jar).full_path of the jar of package x
JarPath(dir, x) == PathJoin(PathJoin(dir, << "m", "o", "d", "s" >>), << x >> \o S_jar)

\* str.endswith and str.removesuffix
EndsWith(s, suffix) ==
    /\ Len(s) >= Len(suffix)
    /\ SubSeq(s, Len(s) - Len(suffix) + 1, Len(s)) = suffix

RemoveSuffix(s, suffix) ==
    IF EndsWith(s, suffix) THEN SubSeq(s, 1, Len(s) - Len(suffix)) ELSE s

\* the files of a pack in the directory dir, before any call and any load
InitIO(dir) ==
    /\ directory = dir
    /\ filename = [x \in Installed |-> JarPath(dir, x)]
    /\ files = { JarPath(dir, x) : x \in Installed }
    /\ toggles = << >>
    /\ jars = << >>
    /\ listing = << >>

\* the class attributes and locals before any analysis pass
InitHeap ==
    /\ ALL_GRAPHS = [x \in ModIds |-> 0]
    /\ ALL_NODES = [x \in ModIds |-> 0]
    /\ node_mod_set = << >>
    /\ node_graph = << >>
    /\ graph_nodes = << >>
    /\ graphs = << >>
    /\ graph_list = << >>
    /\ idx = 0
    /\ stack = << >>
    /\ call = NoCall
    /\ calls = 0
    /\ err = "none"
    /\ errors = << >>
    /\ validation = "unset"

\* main.py after pack.load(): every pack of the enumerated manifests
Init ==
    /\ driver = "main"
    /\ pc = "loaded"
    /\ \E reqs \in { ModDependency("a", TRUE, S_range).version_reqs } :
          \E da \in DepLists("a", reqs), db \in DepLists("b", reqs),
             dc \in DepLists("c", reqs),
             df \in { << >>, << Dependency("a", TRUE, reqs) >> } :
             mods = [x \in Installed |->
                       Mod(x, CASE x = "a" -> da [] x = "b" -> db [] x = "c" -> dc
                                [] OTHER -> df)]
    /\ InitHeap
    /\ InitIO(AbsoluteDir)
    /\ ver = NoVer /\ prs = NoPrs /\ elim = NoElim

(***************************************************************************)
(* mod_info.py: ModPack.validateVersions.  An error note is kept as        *)
(* [note, modid, version_reqs]: "requires" for a mismatch (modid is the    *)
(* requester), "missing" for a dependency that is not installed (modid is  *)
(* the target).                                                            *)
(***************************************************************************)
\* a validateVersions that notes a mismatch on the requester
ValidateDep_noteRequester(ms, x, dep) ==
    IF dep.modid \in DOMAIN ms
    THEN LET failed == ~ModDependency_validateMod(dep, dep.modid, ms[dep.modid].version)
             rdep_mod == [modid |-> x, required |-> FALSE,
                          version_reqs |-> dep.version_reqs]
             added == [ms EXCEPT ![dep.modid].dependents = Append(@, rdep_mod)]
         IN  IF failed
             THEN [added EXCEPT ![x].errors =
                     Append(@, [note |-> "requires", modid |-> x,
                                version_reqs |-> dep.version_reqs])]
             ELSE added
    ELSE IF dep.required
         THEN [ms EXCEPT ![x].errors =
                 Append(@, [note |-> "missing", modid |-> dep.modid,
                            version_reqs |-> dep.version_reqs])]
         ELSE ms

ValidateDep(ms, x, dep) ==
    IF dep.modid \in DOMAIN ms
    THEN LET dependency == ms[dep.modid]
             noted ==
                 IF ~ModDependency_validateMod(dep, dep.modid, dependency.version)
                 THEN Append(dependency.errors,
                             [note |-> "requires", modid |-> x,
                              version_reqs |-> dep.version_reqs])
                 ELSE dependency.errors
             rdep_mod == [modid |-> x, required |-> FALSE,
                          version_reqs |-> dep.version_reqs]
         IN  [ms EXCEPT ![dep.modid] =
                 [@ EXCEPT !.errors = noted,
                           !.dependents = Append(dependency.dependents, rdep_mod)]]
    ELSE IF dep.required
         THEN [ms EXCEPT ![x].errors =
                 Append(@, [note |-> "missing", modid |-> dep.modid,
                            version_reqs |-> dep.version_reqs])]
         ELSE ms

RECURSIVE ValidateDeps(_, _, _)
ValidateDeps(ms, x, k) ==
    IF k > Len(ms[x].dependencies) THEN ms
    ELSE ValidateDeps(ValidateDep(ms, x, ms[x].dependencies[k]), x, k + 1)

RECURSIVE ValidateMods(_, _)
ValidateMods(ms, i) ==
    IF i > Len(ModOrder) THEN ms
    ELSE IF ModOrder[i] \notin DOMAIN ms THEN ValidateMods(ms, i + 1)
    ELSE ValidateMods(ValidateDeps(ms, ModOrder[i], 1), i + 1)

ErrNum(ms, packErrors) ==
    Cardinality({ x \in DOMAIN ms : Len(ms[x].errors) > 0 }) + Len(packErrors)

ValidateVersions ==
    /\ driver = "main"
    /\ pc = "loaded"
    /\ mods' = ValidateMods(mods, 1)
    /\ validation' = (ErrNum(mods', errors) = 0)
    /\ pc' = "roots"
    /\ UNCHANGED << driver, err, errors, heapVars, passVars, unitVars, pureVars, ioVars >>

(***************************************************************************)
(* mod_info.py: DependencyGraph and DependencyGraph.Node.  The operations  *)
(* work on the heap H = [ag, an, ms, ng, gn]: the two class-level indices, *)
(* every node's mod_set and graph, every graph's nodes.                    *)
(***************************************************************************)
Heap ==
    [ag |-> ALL_GRAPHS, an |-> ALL_NODES, ms |-> node_mod_set, ng |-> node_graph,
     gn |-> graph_nodes]

SetHeap(H) ==
    /\ ALL_GRAPHS' = H.ag
    /\ ALL_NODES' = H.an
    /\ node_mod_set' = H.ms
    /\ node_graph' = H.ng
    /\ graph_nodes' = H.gn

\* Node.merge: set.union returns a new set, which the call drops
Node_merge(H, self, other) ==
    [H EXCEPT !.ag = [x \in ModIds |-> IF x \in H.ms[other] THEN H.ng[self] ELSE H.ag[x]],
              !.an = [x \in ModIds |-> IF x \in H.ms[other] THEN self ELSE H.an[x]],
              !.ms[other] = {}]

\* the loop body without the update of the two indices
MergeNode_keepIndex(H, self, node) ==
    [H EXCEPT !.ng[node] = self, !.gn[self] = Append(@, node)]

\* the body of the loop of DependencyGraph.merge, for one node of other.nodes
MergeNode(H, self, node) ==
    [H EXCEPT !.ag = [x \in ModIds |-> IF x \in H.ms[node] THEN self ELSE H.ag[x]],
              !.an = [x \in ModIds |-> IF x \in H.ms[node] THEN node ELSE H.an[x]],
              !.ng[node] = self,
              !.gn[self] = Append(@, node)]

\* DependencyGraph.merge: the loop reads other.nodes as it stands in each
\* iteration; a list that has grown to MaxNodes cannot grow further and
\* append raises MemoryError
RECURSIVE MergeLoop(_, _, _, _)
MergeLoop(H, self, other, i) ==
    IF i > Len(H.gn[other])
    THEN [raised |-> "none", heap |-> [H EXCEPT !.gn[other] = << >>]]
    ELSE IF Len(H.gn[self]) >= MaxNodes
    THEN [raised |-> "MemoryError", heap |-> H]
    ELSE MergeLoop(MergeNode(H, self, H.gn[other][i]), self, other, i + 1)

DependencyGraph_merge(H, self, other) == MergeLoop(H, self, other, 1)

\* Node.dependents / Node.dependencies: the lists of the node's mods, joined
RECURSIVE JoinEdges(_, _)
JoinEdges(modSeq, which) ==
    IF modSeq = << >> THEN << >>
    ELSE (IF which = "dependents" THEN mods[Head(modSeq)].dependents
          ELSE mods[Head(modSeq)].dependencies) \o JoinEdges(Tail(modSeq), which)

Node_edges(ms, node, which) == JoinEdges(SeqOfSet(ms[node]), which)

(***************************************************************************)
(* mod_info.py: ModPack.identifyBrokenMods, the loop that creates a graph  *)
(* for every mod that is not a platform package.                           *)
(***************************************************************************)
AfterRoots == IF driver = "main" THEN "process" ELSE "unit"

CreateRoot ==
    /\ driver \in { "main", "unit" }
    /\ pc = "roots"
    /\ idx < Len(ModOrder)
    /\ LET mod == ModOrder[idx + 1]
           graph == Len(graph_nodes) + 1
           node == Len(node_mod_set) + 1
           last == idx + 1 = Len(ModOrder)
       IN  IF mod \in PLATFORM
           THEN /\ idx' = IF last THEN 0 ELSE idx + 1
                /\ pc' = IF last THEN AfterRoots ELSE pc
                /\ UNCHANGED << err, heapVars, graphs >>
           ELSE IF ALL_NODES[mod] # 0
           THEN \* Node.__init__ raises ValueError
                /\ pc' = "error"
                /\ err' = "ValueError"
                /\ UNCHANGED << heapVars, graphs, idx >>
           ELSE /\ node_mod_set' = Append(node_mod_set, { mod })
                /\ node_graph' = Append(node_graph, graph)
                /\ graph_nodes' = Append(graph_nodes, << node >>)
                /\ graphs' = Append(graphs, graph)
                /\ ALL_NODES' = [ALL_NODES EXCEPT ![mod] = node]
                /\ ALL_GRAPHS' = [ALL_GRAPHS EXCEPT ![mod] = graph]
                /\ idx' = IF last THEN 0 ELSE idx + 1
                /\ pc' = IF last THEN AfterRoots ELSE pc
                /\ err' = err
    /\ UNCHANGED << driver, packVars, graph_list, stack, unitVars, pureVars, ioVars >>

(***************************************************************************)
(* process_graph.  A frame [graph, ni, which, ei] is a running call: it    *)
(* stands in node graph.nodes[ni], in the loop over the node's dependents  *)
(* or dependencies, at the edge ei.  Settle moves the innermost call to    *)
(* the next edge there is to examine and returns from the calls whose      *)
(* loops are through.                                                      *)
(***************************************************************************)
Frame(graph) == [graph |-> graph, ni |-> 1, which |-> "dependents", ei |-> 1]

RECURSIVE Settle(_, _, _)
Settle(st, gn, ms) ==
    IF st = << >> THEN st
    ELSE LET f == Last(st) IN
         IF f.ni > Len(gn[f.graph]) THEN Settle(Front(st), gn, ms)
         ELSE IF f.ei <= Len(Node_edges(ms, gn[f.graph][f.ni], f.which)) THEN st
         ELSE IF f.which = "dependents"
              THEN Settle(Append(Front(st), [f EXCEPT !.which = "dependencies", !.ei = 1]),
                          gn, ms)
              ELSE Settle(Append(Front(st), [Frame(f.graph) EXCEPT !.ni = f.ni + 1]), gn, ms)

\* for mod in self.mods.values(): ... process_graph(_ALL_GRAPHS[mod.modid])
StartProcessGraph ==
    /\ driver = "main"
    /\ pc = "process"
    /\ stack = << >>
    /\ idx < Len(ModOrder)
    /\ idx' = idx + 1
    /\ LET mod == ModOrder[idx + 1] IN
           IF mod \in PLATFORM THEN stack' = stack
           ELSE stack' = Settle(<< Frame(ALL_GRAPHS[mod]) >>, graph_nodes, node_mod_set)
    /\ UNCHANGED << ioVars, driver, pc, err, packVars, heapVars, graphs, graph_list, unitVars,
                    pureVars >>

\* one iteration of a loop over node.dependents or node.dependencies; mod is
\* the variable of the loop of identifyBrokenMods that made the outermost call
ProcessEdge ==
    /\ driver = "main"
    /\ pc = "process"
    /\ stack # << >>
    /\ LET f == Last(stack)
           node == graph_nodes[f.graph][f.ni]
           dep == Node_edges(node_mod_set, node, f.which)[f.ei]
           mod == ModOrder[idx]
           invalid_modid == dep.modid \in PLATFORM
           not_installed == dep.modid \notin DOMAIN mods
           advanced == Append(Front(stack), [f EXCEPT !.ei = f.ei + 1])
       IN  IF invalid_modid \/ (~dep.required /\ not_installed)
           THEN /\ stack' = Settle(advanced, graph_nodes, node_mod_set)
                /\ UNCHANGED << pc, err, heapVars >>
           ELSE IF ALL_GRAPHS[mod] = 0 \/ ALL_GRAPHS[dep.modid] = 0
           THEN \* _ALL_GRAPHS[...] raises KeyError
                /\ pc' = "error"
                /\ err' = "KeyError"
                /\ stack' = << >>
                /\ UNCHANGED heapVars
           ELSE LET mod_graph == ALL_GRAPHS[mod]
                    dep_graph == ALL_GRAPHS[dep.modid]
                    merged == DependencyGraph_merge(Heap, mod_graph, dep_graph)
                IN  IF mod_graph = dep_graph
                    THEN /\ stack' = Settle(advanced, graph_nodes, node_mod_set)
                         /\ UNCHANGED << pc, err, heapVars >>
                    ELSE IF merged.raised # "none"
                    THEN /\ pc' = "error"
                         /\ err' = merged.raised
                         /\ stack' = << >>
                         /\ SetHeap(merged.heap)
                    ELSE /\ SetHeap(merged.heap)
                         /\ stack' = Settle(Append(advanced, Frame(dep_graph)),
                                            merged.heap.gn, merged.heap.ms)
                         /\ UNCHANGED << pc, err >>
    /\ UNCHANGED << driver, packVars, graphs, graph_list, idx, unitVars, pureVars, ioVars >>

(***************************************************************************)
(* The graph_list of identifyBrokenMods: the graphs of the nodes of        *)
(* _ALL_NODES in the order of the dict, each once, then sorted by the      *)
(* number of mods.  With it the discovery of the components is over; what  *)
(* follows in the function prints and reads the logs.                      *)
(***************************************************************************)
HasNode(x) == ALL_NODES[x] # 0

Range(s) == { s[i] : i \in 1..Len(s) }

\* the packages of a graph: the mod sets of its nodes
ModsOf(graph) == UNION { node_mod_set[n] : n \in Range(graph_nodes[graph]) }

\* the loop without the test "node.graph not in graph_list"
RECURSIVE DistinctGraphs_noDedup(_, _, _)
DistinctGraphs_noDedup(keys, k, acc) ==
    IF k > Len(keys) THEN acc
    ELSE DistinctGraphs_noDedup(keys, k + 1, Append(acc, node_graph[ALL_NODES[keys[k]]]))

RECURSIVE DistinctGraphs(_, _, _)
DistinctGraphs(keys, k, acc) ==
    IF k > Len(keys) THEN acc
    ELSE LET graph == node_graph[ALL_NODES[keys[k]]] IN
         DistinctGraphs(keys, k + 1,
                        IF graph \in Range(acc) THEN acc ELSE Append(acc, graph))

RECURSIVE SumModSets(_, _)
SumModSets(nodes, ms) ==
    IF nodes = << >> THEN 0
    ELSE Cardinality(ms[Head(nodes)]) + SumModSets(Tail(nodes), ms)

\* the sort key: sum([len(y.mod_set) for y in x.nodes])
ModCount(graph) == SumModSets(graph_nodes[graph], node_mod_set)

\* sorted() is stable: an element goes behind the elements with a key <= its own
RECURSIVE SortedByModCount(_)
SortedByModCount(list) ==
    IF list = << >> THEN << >>
    ELSE LET rest == SortedByModCount(Front(list))
             x == Last(list)
             before == SelectSeq(rest, LAMBDA y : ModCount(y) <= ModCount(x))
             after == SelectSeq(rest, LAMBDA y : ModCount(y) > ModCount(x))
         IN  before \o << x >> \o after

BuildGraphList ==
    /\ driver = "main"
    /\ pc = "process"
    /\ stack = << >>
    /\ idx = Len(ModOrder)
    /\ graph_list' = SortedByModCount(DistinctGraphs(SelectSeq(ModOrder, HasNode), 1, << >>))
    /\ pc' = "discovered"
    /\ UNCHANGED << driver, err, packVars, heapVars, graphs, idx, stack, unitVars, pureVars, ioVars >>

(***************************************************************************)
(* The unit driver: after the root graphs are made it calls               *)
(* DependencyGraph.merge and Node.merge directly, on any two objects, the  *)
(* same object twice included.  call keeps the call, its outcome and the   *)
(* heap before it.                                                         *)
(***************************************************************************)
Snapshot ==
    [graph_nodes |-> graph_nodes, node_mod_set |-> node_mod_set,
     ALL_NODES |-> ALL_NODES, ALL_GRAPHS |-> ALL_GRAPHS]

CallGraphMerge(a, b) ==
    /\ driver = "unit"
    /\ pc = "unit"
    /\ calls < MaxCalls
    /\ LET r == DependencyGraph_merge(Heap, a, b) IN
           /\ SetHeap(r.heap)
           /\ call' = [op |-> "merge", self |-> a, other |-> b,
                       outcome |-> IF r.raised = "none" THEN "returned" ELSE r.raised,
                       before |-> Snapshot]
    /\ calls' = calls + 1
    /\ UNCHANGED << driver, pc, err, packVars, passVars, pureVars, ioVars >>

CallNodeMerge(a, b) ==
    /\ driver = "unit"
    /\ pc = "unit"
    /\ calls < MaxCalls
    /\ SetHeap(Node_merge(Heap, a, b))
    /\ call' = [op |-> "node_merge", self |-> a, other |-> b, outcome |-> "returned",
                before |-> Snapshot]
    /\ calls' = calls + 1
    /\ UNCHANGED << driver, pc, err, packVars, passVars, pureVars, ioVars >>

InitUnit ==
    /\ driver = "unit"
    /\ pc = "roots"
    /\ mods = [x \in Installed |-> Mod(x, << >>)]
    /\ InitHeap
    /\ InitIO(AbsoluteDir)
    /\ ver = NoVer /\ prs = NoPrs /\ elim = NoElim

NextUnit ==
    \/ CreateRoot
    \/ \E a, b \in 1..Len(graph_nodes) : CallGraphMerge(a, b)
    \/ \E a, b \in 1..Len(node_mod_set) : CallNodeMerge(a, b)

(***************************************************************************)
(* eliminate.py: binaryElimination, one loop iteration a step.  left,      *)
(* right and mid are the Python indices (from 0); list is kept from 1.     *)
(* mod_info.py: binaryGraphElimination builds its dummy first graph from   *)
(* Mod(self), which has no modid, so that Node.__init__ raises             *)
(* AttributeError before the search starts.                                *)
(* runs is the list of the calls of self.run() the graph search has made,  *)
(* each with its mid and the indices of the disabled components.           *)
(***************************************************************************)
\* any(_list[lo:hi]) for 0 <= lo and 0 <= hi
AnySlice(list, lo, hi) ==
    \E k \in lo + 1..(IF hi < Len(list) THEN hi ELSE Len(list)) : list[k]

Candidates == UNION { [1..n -> BOOLEAN] : n \in 0..MaxList }

InitElim ==
    /\ driver = "elim"
    /\ pc = "pure"
    /\ \E list \in Candidates, fn \in { "binaryElimination", "binaryGraphElimination" } :
          elim = [pc |-> "start", fn |-> fn, list |-> list, left |-> 0,
                  right |-> Len(list) - 1, mid |-> -1, result |-> -1, raised |-> "none",
                  runs |-> << >>]
    /\ mods = [x \in Installed |-> Mod(x, << >>)]
    /\ InitHeap
    /\ InitIO(AbsoluteDir)
    /\ ver = NoVer /\ prs = NoPrs

\* mid = (left + right) // 2
Mid(left, right) == (left + right) \div 2

ElimIterate ==
    /\ driver = "elim"
    /\ elim.fn = "binaryElimination"
    /\ elim.pc \in { "start", "loop" }
    /\ elim.left < elim.right
    /\ LET mid == Mid(elim.left, elim.right) IN
           elim' = [elim EXCEPT
                      !.pc = "loop",
                      !.mid = mid,
                      !.left = IF AnySlice(elim.list, mid, elim.right) THEN mid + 1 ELSE @,
                      !.right = IF AnySlice(elim.list, mid, elim.right) THEN @ ELSE mid - 1]
    /\ UNCHANGED << driver, pc, err, packVars, heapVars, passVars, unitVars, ver, prs, ioVars >>

\* the print of mid after the loop raises UnboundLocalError when the loop
\* never ran
ElimReturn ==
    /\ driver = "elim"
    /\ elim.fn = "binaryElimination"
    /\ elim.pc \in { "start", "loop" }
    /\ ~(elim.left < elim.right)
    /\ elim' = IF elim.pc = "start"
               THEN [elim EXCEPT !.pc = "done", !.raised = "UnboundLocalError"]
               ELSE [elim EXCEPT !.pc = "done", !.result = elim.right]
    /\ UNCHANGED << driver, pc, err, packVars, heapVars, passVars, unitVars, ver, prs, ioVars >>

GraphElimRaise ==
    /\ driver = "elim"
    /\ elim.fn = "binaryGraphElimination"
    /\ elim.pc = "start"
    /\ elim' = [elim EXCEPT !.pc = "done", !.raised = "AttributeError"]
    /\ UNCHANGED << driver, pc, err, packVars, heapVars, passVars, unitVars, ver, prs, ioVars >>

NextElim == ElimIterate \/ ElimReturn \/ GraphElimRaise

(***************************************************************************)
(* The comparison harness: three versions a, b and c; Compare applies the  *)
(* comparison operators of Version to them, Contains asks the range from a *)
(* to b whether it contains c.                                             *)
(***************************************************************************)
RECURSIVE Join(_, _)
Join(strings, sep) ==
    IF strings = << >> THEN << >>
    ELSE IF Len(strings) = 1 THEN strings[1]
    ELSE strings[1] \o sep \o Join(Tail(strings), sep)

\* VersionPart.__str__
VersionPart_str(p) == Join([i \in 1..Len(p) |-> IntToStr(p[i])], << "." >>)

\* Version.__str__
Version_str(v) ==
    IF v.text # << "*" >>
    THEN Join([i \in 1..Len(v.parts) |-> VersionPart_str(v.parts[i])], << "-" >>)
    ELSE << "*" >>

VersionParts == UNION { [1..k -> 0..MaxVal] : k \in 1..MaxComps }

PartLists == UNION { [1..k -> VersionParts] : k \in 1..MaxParts }

\* the Version a string of the parts parses to
VersionOf(parts) == [text |-> Version_str([text |-> << >>, parts |-> parts]), parts |-> parts]

Versions == { VersionOf(parts) : parts \in PartLists } \cup { Wildcard }

InitVersion ==
    /\ driver = "version"
    /\ pc = "pure"
    /\ \E a, b, c \in Versions :
          ver = [pc |-> "input", a |-> a, b |-> b, c |-> c,
                 lower_inclusive |-> TRUE, upper_inclusive |-> TRUE, res |-> << >>]
    /\ mods = [x \in Installed |-> Mod(x, << >>)]
    /\ InitHeap
    /\ InitIO(AbsoluteDir)
    /\ prs = NoPrs /\ elim = NoElim

Compare ==
    /\ driver = "version"
    /\ ver.pc = "input"
    /\ ver' = [ver EXCEPT
                 !.pc = "compared",
                 !.res = [lt_ab |-> Version_lt(ver.a, ver.b),
                          eq_ab |-> Version_eq(ver.a, ver.b),
                          lt_ba |-> Version_lt(ver.b, ver.a),
                          le_ab |-> Version_le(ver.a, ver.b),
                          gt_ab |-> Version_gt(ver.a, ver.b),
                          ge_ab |-> Version_ge(ver.a, ver.b),
                          lt_bc |-> Version_lt(ver.b, ver.c),
                          eq_bc |-> Version_eq(ver.b, ver.c),
                          lt_ac |-> Version_lt(ver.a, ver.c),
                          eq_ac |-> Version_eq(ver.a, ver.c)]]
    /\ UNCHANGED << driver, pc, err, packVars, heapVars, passVars, unitVars, prs, elim, ioVars >>

Contains(lower_inclusive, upper_inclusive) ==
    /\ driver = "version"
    /\ ver.pc = "input"
    /\ LET range == [lower |-> [bound |-> ver.a, inclusive |-> lower_inclusive],
                     upper |-> [bound |-> ver.b, inclusive |-> upper_inclusive]]
       IN  ver' = [ver EXCEPT
                     !.pc = "contained",
                     !.lower_inclusive = lower_inclusive,
                     !.upper_inclusive = upper_inclusive,
                     !.res = [contains |-> VersionRange_contains(range, ver.c)]]
    /\ UNCHANGED << driver, pc, err, packVars, heapVars, passVars, unitVars, prs, elim, ioVars >>

NextVersion ==
    \/ Compare
    \/ \E li, ui \in BOOLEAN : Contains(li, ui)

(***************************************************************************)
(* The parsing harness.  ParseVersions parses two version strings and      *)
(* compares the results; ParseRange joins bracket expressions with commas, *)
(* builds the ModDependency of the range string and asks validateMod about *)
(* a package of the same id at a parsed version.                           *)
(***************************************************************************)
QualifierWords == { Qualifiers[k][1] : k \in 1..Len(Qualifiers) }

PlainVersions ==
    { S_1_0, << "1", ".", "5" >>, S_2_0, << "3", ".", "0" >>, << "3", ".", "5" >>,
      << "4", ".", "0" >> }

VersionStrings ==
    PlainVersions
        \cup { S_1_0 \o << "-" >> \o w \o n : w \in QualifierWords, n \in { << >>, << "1" >> } }

Bracket(open, lower, upper, close) ==
    << open >> \o lower \o << "," >> \o upper \o << close >>

LowExprs == { Bracket(o, S_1_0, S_2_0, c) : o \in { "[", "(" }, c \in { "]", ")" } }

HighExprs ==
    { Bracket(o, << "3", ".", "0" >>, << "4", ".", "0" >>, c) :
        o \in { "[", "(" }, c \in { "]", ")" } }

ExprLists ==
    { << e >> : e \in LowExprs } \cup { << e, f >> : e \in LowExprs, f \in HighExprs }

InitParse ==
    /\ driver = "parse"
    /\ pc = "pure"
    /\ \/ \E s1, s2 \in VersionStrings :
             prs = [pc |-> "input", op |-> "versions", s1 |-> s1, s2 |-> s2,
                    exprs |-> << >>, res |-> << >>]
       \/ \E exprs \in ExprLists, s2 \in PlainVersions :
             prs = [pc |-> "input", op |-> "range", s1 |-> Join(exprs, << "," >>),
                    s2 |-> s2, exprs |-> exprs, res |-> << >>]
    /\ mods = [x \in Installed |-> Mod(x, << >>)]
    /\ InitHeap
    /\ InitIO(AbsoluteDir)
    /\ ver = NoVer /\ elim = NoElim

ParseVersions ==
    /\ driver = "parse"
    /\ prs.pc = "input"
    /\ prs.op = "versions"
    /\ LET v1 == Version_fromString(prs.s1)
           v2 == Version_fromString(prs.s2)
       IN  prs' = [prs EXCEPT
                     !.pc = "parsed",
                     !.res = [v1 |-> v1, v2 |-> v2,
                              lt |-> /\ v1 # BadVersionString
                                     /\ v2 # BadVersionString
                                     /\ Version_lt(v1, v2)]]
    /\ UNCHANGED << driver, pc, err, packVars, heapVars, passVars, unitVars, ver, elim, ioVars >>

\* ModDependency("a", True, s1).validateMod(mod) for a mod "a" at version s2;
\* there is no dependency to ask when the constructor raises
ParseRange ==
    /\ driver = "parse"
    /\ prs.pc = "input"
    /\ prs.op = "range"
    /\ LET parsed == VersionRange_fromString(prs.s1)
           version == Version_fromString(prs.s2)
       IN  prs' = [prs EXCEPT
                     !.pc = "parsed",
                     !.res = [raised |-> parsed.raised, ranges |-> parsed.ranges,
                              version |-> version,
                              accepted |->
                                  /\ parsed.raised = "none"
                                  /\ ModDependency_validateMod(
                                         ModDependency("a", TRUE, prs.s1), "a", version)]]
    /\ UNCHANGED << driver, pc, err, packVars, heapVars, passVars, unitVars, ver, elim, ioVars >>

NextParse == ParseVersions \/ ParseRange

(***************************************************************************)
(* mod_info.py: Mod.enable, Mod.disable and DependencyGraph.disable_all.   *)
(* They work on T = [filename, files, raised]: the recorded file names,    *)
(* the files on disk and the exception the call has ended with.  A call    *)
(* nested deeper than MaxDepth raises RecursionError; what the calls       *)
(* before it renamed stays renamed.                                        *)
(***************************************************************************)
\* FileReal(parent, name).rename(new_name), followed by the caller's
\* self.filename = new_name; os.rename raises when there is no such file
FileReal_rename(T, x, parent, new_name) ==
    IF PathJoin(parent, T.filename[x]) \notin T.files
    THEN [T EXCEPT !.raised = "FileNotFoundError"]
    ELSE [T EXCEPT !.files = (@ \ { PathJoin(parent, T.filename[x]) })
                                 \cup { PathJoin(parent, new_name) },
                   !.filename[x] = new_name]

\* if self.filename and self.filename != '[no file]'
HasFile(T, x) == T.filename[x] # << >> /\ T.filename[x] # S_no_file

\* an enable that leaves the file name as it is
Enable_rename_keepName(T, x) == T

\* the first statement of enable
Enable_rename(T, x) ==
    IF EndsWith(T.filename[x], S_jar \o S_disabled)
    THEN FileReal_rename(T, x, directory, RemoveSuffix(T.filename[x], S_disabled))
    ELSE T

\* the first statement of disable
Disable_rename(T, x) ==
    IF EndsWith(T.filename[x], S_jar)
    THEN FileReal_rename(T, x, directory, T.filename[x] \o S_disabled)
    ELSE T

RECURSIVE Mod_enable(_, _, _)
RECURSIVE EnableEach(_, _, _, _)
\* the loop of enable over self.dependencies, and of disable over
\* self.dependents: both call enable() of the installed packages
EnableEach(T, deps, k, depth) ==
    IF k > Len(deps) \/ T.raised # "none" THEN T
    ELSE IF deps[k].modid \in DOMAIN mods
    THEN EnableEach(Mod_enable(T, deps[k].modid, depth + 1), deps, k + 1, depth)
    ELSE EnableEach(T, deps, k + 1, depth)

\* enable from its loop on
Enable_loop(T, x, depth) ==
    IF T.raised = "none" /\ HasFile(T, x)
    THEN EnableEach(T, mods[x].dependencies, 1, depth)
    ELSE T

Mod_enable(T, x, depth) ==
    IF depth > MaxDepth THEN [T EXCEPT !.raised = "RecursionError"]
    ELSE Enable_loop(Enable_rename(T, x), x, depth)

\* disable from its loop on
Disable_loop(T, x, depth) ==
    IF T.raised = "none" /\ HasFile(T, x)
    THEN EnableEach(T, mods[x].dependents, 1, depth)
    ELSE T

Mod_disable(T, x, depth) == Disable_loop(Disable_rename(T, x), x, depth)

\* disable_all: the loops over self.nodes and over each node.mod_set
RECURSIVE DisableEach(_, _, _)
DisableEach(T, modSeq, k) ==
    IF k > Len(modSeq) \/ T.raised # "none" THEN T
    ELSE DisableEach(Mod_disable(T, modSeq[k], 1), modSeq, k + 1)

RECURSIVE ModsOfNodes(_, _)
ModsOfNodes(nodes, k) ==
    IF k > Len(nodes) THEN << >>
    ELSE SeqOfSet(node_mod_set[nodes[k]]) \o ModsOfNodes(nodes, k + 1)

DependencyGraph_disable_all(T, graph) ==
    DisableEach(T, ModsOfNodes(graph_nodes[graph], 1), 1)

(***************************************************************************)
(* Direct calls on the packages and graphs of a pack whose components are  *)
(* discovered, as the graph bisection is to make them.  toggles keeps each  *)
(* call with its outcome and the file names before it.                     *)
(***************************************************************************)
Toggled(op, self, T) ==
    /\ filename' = T.filename
    /\ files' = T.files
    /\ toggles' = Append(toggles, [op |-> op, self |-> self,
                                   outcome |-> IF T.raised = "none" THEN "returned"
                                               ELSE T.raised,
                                   before |-> filename])
    /\ UNCHANGED << driver, pc, err, packVars, heapVars, passVars, unitVars, pureVars,
                    directory, jars, listing >>

Files == [filename |-> filename, files |-> files, raised |-> "none"]

CallEnable(x) ==
    /\ driver = "main"
    /\ pc = "discovered"
    /\ Len(toggles) < MaxToggles
    /\ Toggled("enable", x, Mod_enable(Files, x, 1))

CallDisable(x) ==
    /\ driver = "main"
    /\ pc = "discovered"
    /\ Len(toggles) < MaxToggles
    /\ Toggled("disable", x, Mod_disable(Files, x, 1))

CallDisableAll(graph) ==
    /\ driver = "main"
    /\ pc = "discovered"
    /\ Len(toggles) < MaxToggles
    /\ Toggled("disable_all", graph, DependencyGraph_disable_all(Files, graph))

\* the packs whose dependencies are all installed, in an instance directory
\* given as an absolute or as a relative path
InstalledPack ==
    \E reqs \in { ModDependency("a", TRUE, S_range).version_reqs } :
       \E deps \in [NonPlatform -> UNION { DepLists(x, reqs) : x \in NonPlatform }] :
          /\ \A x \in NonPlatform :
                /\ deps[x] \in DepLists(x, reqs)
                /\ \A k \in 1..Len(deps[x]) : deps[x][k].modid \in Installed
          /\ mods = [x \in Installed |->
                       Mod(x, IF x \in NonPlatform THEN deps[x] ELSE << >>)]

InitFiles ==
    /\ driver = "main"
    /\ pc = "loaded"
    /\ InstalledPack
    /\ InitHeap
    /\ \E dir \in { AbsoluteDir, RelativeDir } : InitIO(dir)
    /\ ver = NoVer /\ prs = NoPrs /\ elim = NoElim

NextFiles ==
    \/ \E x \in DOMAIN mods : CallEnable(x)
    \/ \E x \in DOMAIN mods : CallDisable(x)
    \/ \E k \in 1..Len(graph_list) : CallDisableAll(graph_list[k])

(***************************************************************************)
(* mod_info.py: ModPack.load, process_jar and Mod.load.  A jar is the      *)
(* content of its META-INF/mods.toml:                                      *)
(*   [modid, version, has_dependencies, dependencies]                      *)
(* version is the text of mods[0].version, has_dependencies says whether   *)
(* the table dependencies exists, and dependencies holds the entries of    *)
(* dependencies.<modid> as [modId, mandatory, versionRange], versionRange  *)
(* a text.  The note of a range that does not parse is kept as             *)
(* [note |-> "invalid", modid, version_reqs]: modid is the dependency's    *)
(* modId and version_reqs the text of the range.                           *)
(***************************************************************************)
S_bad_version == << "a", "b", "c" >>

\* "[1.0,*)"
S_from_1_star == << "[", "1", ".", "0", ",", "*", ")" >>

\* "[2.0,*)"
S_from_2_star == << "[", "2", ".", "0", ",", "*", ")" >>

\* "[1.0,)"
S_from_1 == << "[", "1", ".", "0", ",", ")" >>

\* "[2.0,)"
S_from_2 == << "[", "2", ".", "0", ",", ")" >>

VersionTexts == { S_1_0, S_2_0, S_bad_version }

RangeTexts == { S_from_1_star, S_from_2_star, S_from_1, S_from_2, S_range }

\* one iteration of the loop over deps[instance.modid]: the try around
\* ModDependency(...) catches BadVersionString only
LoadDependency(L, dependency, parsed) ==
    IF parsed.raised = "BadVersionString"
    THEN [L EXCEPT !.errors = Append(@, [note |-> "invalid",
                                          modid |-> dependency.modId,
                                          version_reqs |-> dependency.versionRange])]
    ELSE IF parsed.raised # "none" THEN [L EXCEPT !.raised = parsed.raised]
    ELSE [L EXCEPT !.dependencies =
             Append(@, Dependency(dependency.modId, dependency.mandatory,
                                  parsed.ranges))]

RECURSIVE LoadDependencies(_, _, _)
LoadDependencies(L, deps, k) ==
    IF k > Len(deps) \/ L.raised # "none" THEN L
    ELSE LoadDependencies(
             LoadDependency(L, deps[k], VersionRange_fromString(deps[k].versionRange)),
             deps, k + 1)

\* Mod.load from the line that reads the version on; version is what
\* Version.fromString returned.  The result is [raised, version,
\* dependencies, errors].
LoadedMod(jar, version) ==
    IF version = BadVersionString
    THEN [raised |-> "BadVersionString", version |-> version,
          dependencies |-> << >>, errors |-> << >>]
    ELSE IF ~jar.has_dependencies
    THEN [raised |-> "KeyError", version |-> version,
          dependencies |-> << >>, errors |-> << >>]
    ELSE LoadDependencies([raised |-> "none", version |-> version,
                           dependencies |-> << >>, errors |-> << >>],
                          jar.dependencies, 1)

Mod_load(jar) == LoadedMod(jar, Version_fromString(jar.version))

\* one iteration of the loop of ModPack.load: process_jar registers the
\* Mod that Mod.load returned; an exception of Mod.load ends the run
\* (pc "load_error")
Registered(jar, loaded) ==
    IF loaded.raised # "none"
    THEN /\ pc' = "load_error"
         /\ err' = loaded.raised
         /\ UNCHANGED << mods, filename, idx >>
    ELSE /\ mods' = [x \in DOMAIN mods \cup { jar.modid } |->
                       IF x = jar.modid
                       THEN [version |-> loaded.version,
                             dependencies |-> loaded.dependencies,
                             dependents |-> << >>, errors |-> loaded.errors]
                       ELSE mods[x]]
         /\ filename' = [x \in DOMAIN filename \cup { jar.modid } |->
                           IF x = jar.modid THEN JarPath(directory, x)
                           ELSE filename[x]]
         /\ pc' = IF idx + 1 = Len(jars) THEN "loaded" ELSE "loading"
         /\ idx' = IF idx + 1 = Len(jars) THEN 0 ELSE idx + 1
         /\ err' = err

LoadJar ==
    /\ driver = "main"
    /\ pc = "loading"
    /\ idx < Len(jars)
    /\ \E jar \in { jars[idx + 1] } : Registered(jar, Mod_load(jar))
    /\ UNCHANGED << driver, errors, validation, heapVars, graphs, graph_list, stack,
                    unitVars, pureVars, directory, files, toggles, jars, listing >>

Jar(modid, version, has_dependencies, dependencies) ==
    [modid |-> modid, version |-> version, has_dependencies |-> has_dependencies,
     dependencies |-> dependencies]

\* the entries a manifest of b or c declares: nothing, or package a in one
\* of the ranges
JarDependencies ==
    { << >> } \cup { << [modId |-> "a", mandatory |-> TRUE, versionRange |-> r] >> :
                       r \in RangeTexts }

\* a pack of the jars a, b and c, none read yet
InitLoad ==
    /\ driver = "main"
    /\ pc = "loading"
    /\ mods = << >>
    /\ InitHeap
    /\ ver = NoVer /\ prs = NoPrs /\ elim = NoElim
    /\ directory = AbsoluteDir
    /\ filename = << >>
    /\ files = { JarPath(AbsoluteDir, x) : x \in NonPlatform }
    /\ toggles = << >>
    /\ listing = << >>
    /\ \E va, vb \in VersionTexts, ha \in BOOLEAN, db, dc \in JarDependencies :
          jars = << Jar("a", va, ha, << >>), Jar("b", vb, TRUE, db),
                    Jar("c", S_2_0, TRUE, dc) >>

NextLoad == LoadJar \/ ValidateVersions

(***************************************************************************)
(* mod_info.py: ModPack.why_depends, the subcommand why-depends of main.py *)
(* after validateVersions.  listing keeps what it printed:                 *)
(*   [modid, error, found, dependencies, dependents]                       *)
(* dependencies and dependents are the positions, in the lists of the      *)
(* queried package, of the entries printed.                                *)
(***************************************************************************)
\* vers_reqs_met: any([range.contains(mod._version) for range in
\* dep.version_reqs]), mod the queried package
VersReqsMet(dep, mod) ==
    \E k \in 1..Len(dep.version_reqs) : VersionRange_contains(dep.version_reqs[k], mod.version)

\* the positions of the entries of deps the loop prints
Printed(deps, mod, error) ==
    { k \in 1..Len(deps) : ~error \/ (error /\ ~VersReqsMet(deps[k], mod)) }

WhyDepends(modid, error) ==
    /\ driver = "main"
    /\ pc = "roots"
    /\ idx = 0
    /\ graphs = << >>
    /\ listing' = IF modid \notin DOMAIN mods
                  THEN [modid |-> modid, error |-> error, found |-> FALSE,
                        dependencies |-> { }, dependents |-> { }]
                  ELSE [modid |-> modid, error |-> error, found |-> TRUE,
                        dependencies |-> Printed(mods[modid].dependencies, mods[modid], error),
                        dependents |-> Printed(mods[modid].dependents, mods[modid], error)]
    /\ pc' = "why_depends"
    /\ UNCHANGED << driver, err, packVars, heapVars, passVars, unitVars, pureVars,
                    fileVars, jars >>

NextWhy == ValidateVersions \/ \E modid \in ModIds, error \in BOOLEAN : WhyDepends(modid, error)

(***************************************************************************)
(* mod_info.py: the end of identifyBrokenMods, which reads the three log   *)
(* files of the folder logs, and a second call of identifyBrokenMods on    *)
(* the same ModPack.  The class attributes _ALL_GRAPHS and _ALL_NODES are  *)
(* not touched between the calls; the locals graphs and graph_list are     *)
(* new in each call.  calls counts the calls after the first, and call     *)
(* keeps the components the call before has found.                         *)
(***************************************************************************)
S_logs == << "l", "o", "g", "s" >>

S_latest_log == << "l", "a", "t", "e", "s", "t", ".", "l", "o", "g" >>

S_debug_log == << "d", "e", "b", "u", "g", ".", "l", "o", "g" >>

S_latest_stdout_log ==
    << "l", "a", "t", "e", "s", "t", "_", "s", "t", "d", "o", "u", "t", ".", "l", "o", "g" >>

error_files == << S_latest_log, S_debug_log, S_latest_stdout_log >>

\* FileReal(logs, candidate).full_path
LogPath(dir, candidate) == PathJoin(PathJoin(dir, S_logs), candidate)

\* the loop over error_files: log.read() raises FileNotFoundError for a
\* log that does not exist
ScanLogs ==
    /\ driver = "main"
    /\ pc = "discovered"
    /\ IF \A k \in 1..Len(error_files) : LogPath(directory, error_files[k]) \in files
       THEN pc' = "returned" /\ err' = err
       ELSE pc' = "error" /\ err' = "FileNotFoundError"
    /\ UNCHANGED << driver, packVars, heapVars, passVars, unitVars, pureVars, ioVars >>

\* the components of graph_list as sets of modids
Partition == { ModsOf(graph_list[k]) : k \in 1..Len(graph_list) }

CallAgain ==
    /\ driver = "main"
    /\ pc = "returned"
    /\ calls < MaxCalls
    /\ pc' = "roots"
    /\ graphs' = << >>
    /\ graph_list' = << >>
    /\ idx' = 0
    /\ stack' = << >>
    /\ calls' = calls + 1
    /\ call' = [op |-> "identifyBrokenMods", self |-> 0, other |-> 0,
                outcome |-> "returned", before |-> [partition |-> Partition]]
    /\ UNCHANGED << driver, err, packVars, heapVars, pureVars, ioVars >>

\* a pack whose dependencies are all installed, in an instance whose folder
\* logs holds all three logs, only latest.log, or none
InitAgain ==
    /\ driver = "main"
    /\ pc = "loaded"
    /\ InstalledPack
    /\ InitHeap
    /\ directory = AbsoluteDir
    /\ filename = [x \in Installed |-> JarPath(AbsoluteDir, x)]
    /\ \E logs \in { { }, { 1 }, 1..Len(error_files) } :
          files = { JarPath(AbsoluteDir, x) : x \in Installed }
                     \cup { LogPath(AbsoluteDir, error_files[k]) : k \in logs }
    /\ toggles = << >>
    /\ jars = << >>
    /\ listing = << >>
    /\ ver = NoVer /\ prs = NoPrs /\ elim = NoElim

(***************************************************************************)
(* The specifications.                                                     *)
(***************************************************************************)
\* main.py with the subcommand find-error: validateVersions, then
\* identifyBrokenMods
Next ==
    \/ ValidateVersions
    \/ CreateRoot
    \/ StartProcessGraph
    \/ ProcessEdge
    \/ BuildGraphList

Spec == Init /\ [][Next]_vars

\* find-error, and direct calls of enable, disable and disable_all on what
\* it has discovered
SpecFiles == InitFiles /\ [][Next \/ NextFiles]_vars

\* direct calls on graphs and nodes
SpecUnit == InitUnit /\ [][NextUnit]_vars

\* the elimination search on every candidate list
SpecElim == InitElim /\ [][NextElim]_vars

\* find-error to its end, and identifyBrokenMods called again
SpecAgain == InitAgain /\ [][Next \/ ScanLogs \/ CallAgain]_vars

\* main.py with the subcommand why-depends
SpecWhy == Init /\ [][NextWhy]_vars

\* the load of a pack from its jars, then validateVersions
SpecLoad == InitLoad /\ [][NextLoad]_vars

\* the comparisons of Version on every three versions
SpecVersion == InitVersion /\ [][NextVersion]_vars

\* the parsers on the enumerated version and range strings
SpecParse == InitParse /\ [][NextParse]_vars

(***************************************************************************)
(* The properties.                                                         *)
(***************************************************************************)
Guilty(list) == { k \in 1..Len(list) : list[k] }

\* C1: on a candidate list with exactly one guilty element the elimination
\* search returns the (Python) index of that element.
C1_BisectionReturnsGuilty ==
    (driver = "elim" /\ elim.pc = "done" /\ Cardinality(Guilty(elim.list)) = 1)
        => /\ elim.raised = "none"
           /\ \A k \in Guilty(elim.list) : elim.result = k - 1

NonPlatformMods == DOMAIN mods \ PLATFORM

\* C2: when the discovery of the components is over, graph_list is a
\* partition of the non-platform packages: every such package is in exactly
\* one component, no package is in two, and the components together hold
\* exactly the non-platform packages.
C2_GraphListIsPartition ==
    (driver = "main" /\ pc = "discovered")
        => /\ \A x \in NonPlatformMods :
                Cardinality({ i \in 1..Len(graph_list) : x \in ModsOf(graph_list[i]) }) = 1
           /\ \A i, j \in 1..Len(graph_list) :
                i # j => ModsOf(graph_list[i]) \cap ModsOf(graph_list[j]) = {}
           /\ UNION { ModsOf(graph_list[i]) : i \in 1..Len(graph_list) } = NonPlatformMods

\* a discovery that merged two graphs and left another one alone
C2_Witness ==
    /\ driver = "main"
    /\ pc = "discovered"
    /\ Len(graph_list) = 2
    /\ \E i \in 1..Len(graph_list) : Cardinality(ModsOf(graph_list[i])) = 2

DependsOn(x, y) ==
    \E k \in 1..Len(mods[x].dependencies) : mods[x].dependencies[k].modid = y

\* C3: after an analysis pass two packages that require each other have the
\* same Node in the index.
C3_MutualPackagesShareNode ==
    (driver = "main" /\ pc = "discovered")
        => \A x, y \in NonPlatformMods :
              (x # y /\ DependsOn(x, y) /\ DependsOn(y, x)) => ALL_NODES[x] = ALL_NODES[y]

NodesHolding(x) == { n \in 1..Len(node_mod_set) : x \in node_mod_set[n] }

GraphsListing(n) == { g \in 1..Len(graph_nodes) : n \in Range(graph_nodes[g]) }

\* C4: at every step of the analysis pass every package of the index has
\* exactly one node holding it, the node the index gives; that node's graph
\* is the graph the index gives; and the node is listed, once, by that graph
\* and by no other.
C4_IndexConsistent ==
    driver = "main"
        => \A x \in ModIds :
              ALL_NODES[x] # 0
                  => /\ NodesHolding(x) = { ALL_NODES[x] }
                     /\ node_graph[ALL_NODES[x]] = ALL_GRAPHS[x]
                     /\ GraphsListing(ALL_NODES[x]) = { ALL_GRAPHS[x] }
                     /\ Cardinality({ i \in 1..Len(graph_nodes[ALL_GRAPHS[x]]) :
                                        graph_nodes[ALL_GRAPHS[x]][i] = ALL_NODES[x] }) = 1

\* the pass has merged a graph into another and goes on
C4_Witness ==
    /\ driver = "main"
    /\ pc = "process"
    /\ \E g \in 1..Len(graph_nodes) : Len(graph_nodes[g]) >= 2

\* C5: merging a graph that has a node with itself returns and leaves the
\* graph's node list and the two indices as they were.
C5_SelfMergeIsNoOp ==
    (driver = "unit" /\ call.op = "merge" /\ call.self = call.other
        /\ Len(call.before.graph_nodes[call.self]) >= 1)
        => /\ call.outcome = "returned"
           /\ graph_nodes[call.self] = call.before.graph_nodes[call.self]
           /\ ALL_NODES = call.before.ALL_NODES
           /\ ALL_GRAPHS = call.before.ALL_GRAPHS

\* C6: after Node.merge of node b into node a, a holds the packages of both,
\* b holds none, and the index gives a for every package that was in b.
C6_NodeMergeMovesMods ==
    (driver = "unit" /\ call.op = "node_merge" /\ call.self # call.other)
        => /\ node_mod_set[call.self] =
                 call.before.node_mod_set[call.self] \cup call.before.node_mod_set[call.other]
           /\ node_mod_set[call.other] = {}
           /\ \A x \in call.before.node_mod_set[call.other] :
                 ALL_NODES[x] = call.self /\ x \in node_mod_set[call.self]

Count(flags) == Cardinality({ i \in 1..Len(flags) : flags[i] })

\* C7: the comparison of versions is a strict weak order: of a < b, a == b
\* and b < a exactly one holds, a < b and b < c give a < c, and a == b and
\* b == c give a == c.
C7_StrictWeakOrder ==
    (driver = "version" /\ ver.pc = "compared")
        => /\ Count(<< ver.res.lt_ab, ver.res.eq_ab, ver.res.lt_ba >>) = 1
           /\ (ver.res.lt_ab /\ ver.res.lt_bc) => ver.res.lt_ac
           /\ (ver.res.eq_ab /\ ver.res.eq_bc) => ver.res.eq_ac

\* a chain a < b < c of versions with different numbers of parts and of
\* components
C7_Witness ==
    /\ driver = "version"
    /\ ver.pc = "compared"
    /\ Len(ver.a.parts) = 1
    /\ Len(ver.b.parts) = 2
    /\ Len(ver.b.parts[1]) # Len(ver.a.parts[1])
    /\ ver.res.lt_ab
    /\ ver.res.lt_bc

S_rc1 == S_1_0 \o << "-", "r", "c", "1" >>

S_release == S_1_0 \o << "-", "r", "e", "l", "e", "a", "s", "e" >>

S_alpha == S_1_0 \o << "-", "a", "l", "p", "h", "a" >>

\* C8: "1.0-rc1" parses to a version below that of "1.0-release", and
\* "1.0-alpha" to one below that of "1.0-beta".
C8_QualifierPrecedence ==
    (driver = "parse" /\ prs.pc = "parsed" /\ prs.op = "versions")
        => /\ (prs.s1 = S_rc1 /\ prs.s2 = S_release) => prs.res.lt
           /\ (prs.s1 = S_alpha /\ prs.s2 = S_1_0_beta) => prs.res.lt

IsWildcard(v) == v.text = << "*" >>

\* a <= b and a < b as the claims read them: by < and ==
Below(a, b, inclusive) ==
    IF inclusive THEN Version_lt(a, b) \/ Version_eq(a, b) ELSE Version_lt(a, b)

\* C9: a range contains a version iff the version satisfies the lower bound
\* (lower <= v when inclusive, lower < v when not) and the upper bound
\* (v <= upper when inclusive, v < upper when not), a wildcard bound asking
\* nothing; so an inclusive range of versions contains both its endpoints
\* and an exclusive one neither.
C9_ContainsIsBetween ==
    (driver = "version" /\ ver.pc = "contained")
        => /\ ver.res.contains =
                 (/\ IsWildcard(ver.a) \/ Below(ver.a, ver.c, ver.lower_inclusive)
                  /\ IsWildcard(ver.b) \/ Below(ver.c, ver.b, ver.upper_inclusive))
           /\ (~IsWildcard(ver.a) /\ ~IsWildcard(ver.b) /\ Below(ver.a, ver.b, TRUE)
                 /\ ver.c \in { ver.a, ver.b })
                 => /\ (ver.lower_inclusive /\ ver.upper_inclusive) => ver.res.contains
                    /\ (~ver.lower_inclusive /\ ~ver.upper_inclusive) => ~ver.res.contains

\* the upper endpoint of an inclusive range from a to b > a, contained
C9_Witness ==
    /\ driver = "version"
    /\ ver.pc = "contained"
    /\ ver.lower_inclusive /\ ver.upper_inclusive
    /\ ~IsWildcard(ver.a) /\ ~IsWildcard(ver.b)
    /\ Version_lt(ver.a, ver.b)
    /\ ver.c = ver.b
    /\ ver.res.contains

\* the one range a bracket expression alone parses to
RangeOf(expr) == VersionRange_fromString(expr).ranges[1]

\* C10: a range string of k >= 2 bracket expressions parses to k ranges, the
\* ranges of the expressions in their order, and validateMod accepts a
\* package whose version lies in one of them.
C10_OneRangePerBracket ==
    (driver = "parse" /\ prs.pc = "parsed" /\ prs.op = "range" /\ Len(prs.exprs) >= 2)
        => /\ prs.res.raised = "none"
           /\ Len(prs.res.ranges) = Len(prs.exprs)
           /\ \A i \in 1..Len(prs.exprs) :
                 /\ i <= Len(prs.res.ranges) => prs.res.ranges[i] = RangeOf(prs.exprs[i])
                 /\ VersionRange_contains(RangeOf(prs.exprs[i]), prs.res.version)
                       => prs.res.accepted

\* the last two direct calls: disable() of a package, then enable() of it
RoundTrip ==
    /\ Len(toggles) >= 2
    /\ toggles[Len(toggles) - 1].op = "disable"
    /\ toggles[Len(toggles)].op = "enable"
    /\ toggles[Len(toggles)].self = toggles[Len(toggles) - 1].self

\* C13: after disable() and then enable() of an installed package, whatever
\* the two calls ended with, the package's recorded file name is the name it
\* was installed under, and the file on disk has that name.
C13_DisableEnableRoundTrip ==
    RoundTrip =>
        LET x == toggles[Len(toggles)].self IN
            /\ filename[x] = JarPath(directory, x)
            /\ JarPath(directory, x) \in files
            /\ JarPath(directory, x) \o S_disabled \notin files

\* a round trip of two calls that returned, with the package disabled in
\* between
C13_Witness ==
    /\ RoundTrip
    /\ toggles[Len(toggles) - 1].outcome = "returned"
    /\ toggles[Len(toggles)].outcome = "returned"
    /\ LET x == toggles[Len(toggles)].self IN
           /\ EndsWith(toggles[Len(toggles)].before[x], S_jar \o S_disabled)
           /\ filename[x] = JarPath(directory, x)

\* C20: after a disable_all() that returned, every package of the graph
\* whose file name ended in '.jar' has a file name ending in '.jar.disabled'.
C20_DisableAllDisables ==
    (/\ Len(toggles) >= 1
     /\ toggles[Len(toggles)].op = "disable_all"
     /\ toggles[Len(toggles)].outcome = "returned")
        => \A x \in ModsOf(toggles[Len(toggles)].self) :
              EndsWith(toggles[Len(toggles)].before[x], S_jar)
                  => EndsWith(filename[x], S_jar \o S_disabled)

\* the notes of one kind in the error list of package x
Notes(x, kind) == SelectSeq(mods[x].errors, LAMBDA e : e.note = kind)

\* the manifests of the scenario: A at 1.0 with an empty dependencies
\* table, B requiring A in "[1.0,*)", C requiring A in "[2.0,*)"
Scenario11 ==
    /\ Len(jars) = 3
    /\ jars[1] = Jar("a", S_1_0, TRUE, << >>)
    /\ jars[2].modid = "b"
    /\ jars[2].dependencies =
           << [modId |-> "a", mandatory |-> TRUE, versionRange |-> S_from_1_star] >>
    /\ jars[3].modid = "c"
    /\ jars[3].dependencies =
           << [modId |-> "a", mandatory |-> TRUE, versionRange |-> S_from_2_star] >>

\* C11: in the scenario, once the pack is loaded and validateVersions has
\* returned, it has returned False, A's error list holds exactly one note,
\* a mismatch note naming C, and B's error list is empty.
C11_ScenarioOneMismatch ==
    (Scenario11 /\ driver = "main" /\ pc = "roots")
        => /\ validation = FALSE
           /\ Len(mods["a"].errors) = 1
           /\ Len(Notes("a", "requires")) = 1
           /\ Notes("a", "requires")[1].modid = "c"
           /\ mods["b"].errors = << >>

\* C17: when the load of a pack whose manifests all have a dependencies
\* table has ended, it has not ended with an exception, every jar's package
\* is registered, and each declared dependency has become a dependency of
\* the package or a note about its range in the package's error list.
C17_MalformedNeverAborts ==
    (/\ driver = "main"
     /\ jars # << >>
     /\ pc # "loading"
     /\ \A k \in 1..Len(jars) : jars[k].has_dependencies)
        => /\ pc # "load_error"
           /\ \A k \in 1..Len(jars) :
                 /\ jars[k].modid \in DOMAIN mods
                 /\ Len(mods[jars[k].modid].dependencies)
                       + Len(Notes(jars[k].modid, "invalid"))
                          = Len(jars[k].dependencies)

\* the dependency edges into package x: << requester, position >>
EdgesInto(x) ==
    { e \in (DOMAIN mods) \X (1..MaxDeps) :
        /\ e[2] <= Len(mods[e[1]].dependencies)
        /\ mods[e[1]].dependencies[e[2]].modid = x }

\* the edges into x whose check fails
FailedInto(x) ==
    { e \in EdgesInto(x) :
        ~ModDependency_validateMod(mods[e[1]].dependencies[e[2]], x, mods[x].version) }

\* the dependencies of x on packages that are not installed and required
MissingOf(x) ==
    { k \in 1..Len(mods[x].dependencies) :
        /\ mods[x].dependencies[k].modid \notin DOMAIN mods
        /\ mods[x].dependencies[k].required }

\* validateVersions has returned
Validated == driver = "main" /\ pc \notin { "loading", "load_error", "loaded" }

\* C12: once validateVersions has returned, every installed package B has
\* one dependent entry for each dependency edge A->B, naming A with the
\* ranges of the edge, passed or not; one mismatch note naming A for each
\* such edge whose validateMod fails and no other mismatch note; one
\* missing-dependency note for each of its own dependencies that is
\* required and not installed, and no other note.
C12_ValidateRecords ==
    Validated
        => \A x \in DOMAIN mods :
              /\ Len(mods[x].dependents) = Cardinality(EdgesInto(x))
              /\ \A e \in EdgesInto(x) :
                    \E j \in 1..Len(mods[x].dependents) :
                       /\ mods[x].dependents[j].modid = e[1]
                       /\ mods[x].dependents[j].version_reqs
                             = mods[e[1]].dependencies[e[2]].version_reqs
              /\ Len(Notes(x, "requires")) = Cardinality(FailedInto(x))
              /\ \A e \in FailedInto(x) :
                    \E j \in 1..Len(mods[x].errors) :
                       mods[x].errors[j] =
                          [note |-> "requires", modid |-> e[1],
                           version_reqs |-> mods[e[1]].dependencies[e[2]].version_reqs]
              /\ Len(Notes(x, "missing")) = Cardinality(MissingOf(x))
              /\ \A k \in MissingOf(x) :
                    \E j \in 1..Len(mods[x].errors) :
                       /\ mods[x].errors[j].note = "missing"
                       /\ mods[x].errors[j].modid = mods[x].dependencies[k].modid
              /\ Len(mods[x].errors)
                    = Cardinality(FailedInto(x)) + Cardinality(MissingOf(x))

\* validateVersions has returned on a pack with an edge that fails, an edge
\* that passes, and a missing dependency of each kind
C12_Witness ==
    /\ Validated
    /\ \E x \in DOMAIN mods : FailedInto(x) # { }
    /\ \E x \in DOMAIN mods : EdgesInto(x) \ FailedInto(x) # { }
    /\ \E x \in DOMAIN mods : MissingOf(x) # { }
    /\ \E x \in DOMAIN mods : \E k \in 1..Len(mods[x].dependencies) :
          /\ mods[x].dependencies[k].modid \notin DOMAIN mods
          /\ ~mods[x].dependencies[k].required

\* C14: a search that has ended on a list with no guilty element has
\* returned, and what it returned is not the index of a candidate.
C14_NoFaultIsExplicit ==
    (driver = "elim" /\ elim.pc = "done" /\ Guilty(elim.list) = { })
        => /\ elim.raised = "none"
           /\ elim.result \notin 0..Len(elim.list) - 1

C18_ErrorsOnlyListsUnsatisfied ==
    (driver = "main" /\ pc = "why_depends" /\ listing.found /\ listing.error)
        => \A k \in 1..Len(mods[listing.modid].dependencies) :
              LET dep == mods[listing.modid].dependencies[k] IN
                  dep.modid \in DOMAIN mods
                      => (k \in listing.dependencies
                            <=> ~ModDependency_validateMod(dep, dep.modid,
                                                           mods[dep.modid].version))

\* the non-platform packages with a required dependency on a package that
\* is not installed
RequiringMissing ==
    { x \in DOMAIN mods \ PLATFORM :
        \E k \in 1..Len(mods[x].dependencies) :
           /\ mods[x].dependencies[k].modid \notin DOMAIN mods
           /\ mods[x].dependencies[k].required }

\* C19: when the discovery of a pack in which a non-platform package
\* requires a package that is not installed has ended, it has ended without
\* an exception, and each such package is in exactly one component of
\* graph_list.
C19_MissingRequiredStillGrouped ==
    (driver = "main" /\ pc \in { "discovered", "error" } /\ RequiringMissing # { })
        => /\ pc = "discovered"
           /\ \A x \in RequiringMissing :
                 Cardinality({ k \in 1..Len(graph_list) :
                                 x \in ModsOf(graph_list[k]) }) = 1

\* C16: in a second call of identifyBrokenMods the indices are empty when
\* the call starts, no Node is refused for a modid that has one already,
\* and the components it finds are those the first call found.
C16_SecondPassStartsFresh ==
    (driver = "main" /\ calls >= 1)
        => /\ (pc = "roots" /\ idx = 0)
                 => \A x \in ModIds : ALL_NODES[x] = 0 /\ ALL_GRAPHS[x] = 0
           /\ err # "ValueError"
           /\ pc = "discovered" => Partition = call.before.partition

\* C21: no call of enable() or disable() on an installed package ends with
\* the interpreter giving up on the depth of the nested calls: the walk
\* over dependencies and dependents comes to an end by itself.
C21_TogglesTerminate ==
    \A k \in 1..Len(toggles) :
       toggles[k].op \in { "enable", "disable" } => toggles[k].outcome # "RecursionError"

====
